---------------------------- MODULE Spec2Model ----------------------------
(***************************************************************************)
(* ITB-100 thermal battery: the heat transfer engine (ThermalBatteryModel  *)
(* step_discharge / step_charge) and the cycle simulators                  *)
(* (simulate_discharge / simulate_charge) of                               *)
(* src/models/itb100_system_model.py.                                      *)
(*                                                                         *)
(* The source computes in IEEE doubles.  The model computes in fixed       *)
(* point, rounding every product and quotient down:                        *)
(*   temperature       milli-degC            (58.0 degC  = 58000)          *)
(*   power             milliwatt                                           *)
(*   energy            joule                                               *)
(*   solid fraction    1e-8                  (1.0 = 10^8)                  *)
(*   state of charge   1e-6                  (1.0 = 10^6)                  *)
(*   effectiveness/NTU 1e-8                                                *)
(* Times (dt, model.time, the simulators' clock) are the exception: they   *)
(* are doubles modelled exactly, because the loops compare an accumulated  *)
(* sum of dt with whole numbers of seconds.  A time is [hi, lo] with value *)
(* hi * 2^-15 + lo * 2^-43 seconds, 0 <= lo < 2^28, and FloatAdd rounds    *)
(* the exact sum to 53 significant bits, ties to even, as IEEE 754 does.   *)
(***************************************************************************)
EXTENDS Integers, Sequences, FiniteSets, TLC

-----------------------------------------------------------------------------
(* Fixed-point arithmetic *)

Max(a, b) == IF a >= b THEN a ELSE b

Min(a, b) == IF a <= b THEN a ELSE b

\* The digit base of the long multiplication: the largest power of two B
\* with B * c <= 2^29, so that no intermediate value (below 2 * B * c)
\* leaves the machine integer.
RECURSIVE DigitBase(_, _)
DigitBase(c, B) == IF 2 * B * c <= 2^29 THEN DigitBase(c, 2 * B) ELSE B

\* One digit d of b: from h = <<q, r>> for b \div B to <<q, r>> for b.
MulDivStep(h, a, d, c, B) ==
    <<B * h[1] + d * (a \div c) + ((B * h[2] + d * (a % c)) \div c),
      (B * h[2] + d * (a % c)) % c>>

\* <<q, r>> with a * b = q * c + r and 0 <= r < c, for a, b >= 0 and
\* 0 < c < 2^29, computed without forming a * b.
RECURSIVE MulDivQR(_, _, _, _)
MulDivQR(a, b, c, B) ==
    IF b = 0 THEN <<0, 0>>
    ELSE MulDivStep(MulDivQR(a, b \div B, c, B), a, b % B, c, B)

\* floor(a * b / c)
MulDiv(a, b, c) ==
    IF a = 0 \/ b = 0 THEN 0 ELSE MulDivQR(a, b, c, DigitBase(c, 2))[1]

MilliPerUnit == 10^3

SfOne == 10^8

SocOne == 10^6

EffOne == 10^8

-----------------------------------------------------------------------------
(* Doubles that hold a time in seconds *)

\* hi counts 2^-15 s, lo counts 2^-43 s below one unit of hi.
HiPerSecond == 2^15

LoPerHi == 2^28

Seconds(n) == [hi |-> n * HiPerSecond, lo |-> 0]

\* a < b on times
TimeLess(a, b) == a.hi < b.hi \/ (a.hi = b.hi /\ a.lo < b.lo)

\* Spacing, in units of lo, of the doubles around a time of the given hi:
\* a double has 53 significant bits and hi * 2^28 + lo < 2^53 iff hi < 2^25.
Ulp(hi) ==
    IF hi < 2^25 THEN 1
    ELSE IF hi < 2^26 THEN 2
    ELSE IF hi < 2^27 THEN 4
    ELSE IF hi < 2^28 THEN 8
    ELSE IF hi < 2^29 THEN 16
    ELSE IF hi < 2^30 THEN 32
    ELSE 64

\* Round to nearest double, ties to even.
RoundToDouble(x) ==
    LET u    == Ulp(x.hi)
        r    == x.lo % u
        down == x.lo - r
        up   == IF 2 * r > u THEN TRUE
                ELSE IF 2 * r < u THEN FALSE
                ELSE ((x.lo \div u) % 2) = 1
        lo2  == IF up /\ r # 0 THEN down + u ELSE down
    IN  IF lo2 = LoPerHi THEN [hi |-> x.hi + 1, lo |-> 0]
        ELSE [hi |-> x.hi, lo |-> lo2]

\* a + b in double arithmetic (time += dt)
FloatAdd(a, b) ==
    LET lo == a.lo + b.lo
        hi == a.hi + b.hi + (lo \div LoPerHi)
    IN  RoundToDouble([hi |-> hi, lo |-> lo % LoPerHi])

\* A time in milliseconds, rounded down (dt as the energy arithmetic uses it).
Millis(t) == MulDiv(t.hi, MilliPerUnit, HiPerSecond)

-----------------------------------------------------------------------------
(* ITB100Specs *)

\* 58.0 degC, in milli-degC
T_phase == 58000

\* 264.4e3 J/kg
delta_H_fusion == 264400

\* 2100 J/(kg K)
cp_sat_solid == 2100

\* 3500 J/(kg K)
cp_sat_liquid == 3500

\* 227.1 kg, in 0.1 kg
M_sat == 2271

\* 0.074 kg/s, in g/s
m_dot_design == 74

\* 4186 J/(kg K)
cp_water == 4186

\* 111.7 W/K, in 0.1 W/K
UA_effective == 1117

\* 16.71 kWh, in 0.01 kWh
E_storage == 1671

-----------------------------------------------------------------------------
(* ThermalBatteryModel *)

\* m_dot_design * cp_water, in mW/K (309.764 W/K)
FlowCapacity == m_dot_design * cp_water

\* M_sat * cp_sat_liquid and M_sat * cp_sat_solid, in 0.1 J/K
HeatCapLiquid == M_sat * cp_sat_liquid

HeatCapSolid == M_sat * cp_sat_solid

\* delta_H_fusion * M_sat in J: the heat that melts the whole medium
LatentCapacity == (M_sat * delta_H_fusion) \div 10

\* 0.90 for the 0.99 of the fully solid medium
SfNinetyPercent == 90 * (SfOne \div 100)

\* Thresholds of the guards and of the regime selection
SfFullySolid == 99 * (SfOne \div 100)

SfFullyLiquid == SfOne \div 100

GuardMargin == MilliPerUnit \div 2

RegimeMargin == MilliPerUnit \div 10

ChargeSuperheat == 5 * MilliPerUnit

\* NTU = UA_effective / (m_dot_design * cp_water), in 1e-8
NTU == MulDiv(UA_effective * 100, EffOne, FlowCapacity)

\* Terms of the series that stands for np.exp
ExpTerms == 10

\* x^k / k! in 1e-8
RECURSIVE ExpTerm(_, _)
ExpTerm(x, k) ==
    IF k = 0 THEN EffOne ELSE MulDiv(ExpTerm(x, k - 1), x, EffOne) \div k

\* sum over j in k..ExpTerms of (-x)^j / j!, in 1e-8
RECURSIVE ExpNegFrom(_, _)
ExpNegFrom(x, k) ==
    IF k > ExpTerms THEN 0
    ELSE (IF k % 2 = 0 THEN ExpTerm(x, k) ELSE 0 - ExpTerm(x, k))
         + ExpNegFrom(x, k + 1)

\* np.exp(-x) for 0 <= x < 1, in 1e-8
ExpNeg(x) == ExpNegFrom(x, 0)

\* An exchanger that moves more heat than the stream can carry
effectiveness_overunity == EffOne + EffOne \div 2

\* effectiveness = 1 - np.exp(-NTU), in 1e-8
effectiveness == EffOne - ExpNeg(NTU)

\* E_max of get_state_of_charge: E_storage * 3.6e6, in J
E_max == E_storage * 36000

\* get_state_of_charge: max(0.0, min(1.0, E_stored / E_max)), in 1e-6
get_state_of_charge(E) ==
    IF E <= 0 THEN 0 ELSE Max(0, Min(SocOne, MulDiv(E, SocOne, E_max)))

\* reset_state
reset_state ==
    [T_sat |-> 20 * MilliPerUnit, solid_fraction |-> SfOne, E_stored |-> 0,
     time |-> Seconds(0)]

\* Q_max = m_dot_design * cp_water * (temperature difference), in mW
Q_max_of(delta_T) == MulDiv(delta_T, FlowCapacity, MilliPerUnit)

\* Q_actual = max(0.0, effectiveness * Q_max), in mW
Q_actual_of(delta_T) == Max(0, MulDiv(Q_max_of(delta_T), effectiveness, EffOne))

\* delta_T_water = Q_actual / (m_dot_design * cp_water), in milli-degC
delta_T_water_of(Q) == MulDiv(Q, MilliPerUnit, FlowCapacity)

\* dE = Q_actual * dt, in J
dE_of(Q, dt) == MulDiv(Q, Millis(dt), MilliPerUnit * MilliPerUnit)

\* The temperature change with the heat capacity a hundred times too small
dT_of_unscaled(dE, heatCap) == 100 * MulDiv(dE, 10 * MilliPerUnit, heatCap)

\* dT = dE / (M_sat * cp), in milli-degC, for cp of the liquid or the solid
dT_of(dE, heatCap) == MulDiv(dE, 10 * MilliPerUnit, heatCap)

\* The change of the solid fraction with the sign reversed
d_solid_fraction_reversed(dE) == 0 - MulDiv(dE, SfOne, LatentCapacity)

\* (dE / delta_H_fusion) / M_sat, in 1e-8
d_solid_fraction_of(dE) == MulDiv(dE, SfOne, LatentCapacity)

\* An early return that sets the medium to the inlet temperature
GuardReturnEqualising(s, T_water_in, regime) ==
    [state |-> [s EXCEPT !.T_sat = T_water_in], Q_actual |-> 0,
     T_water_out |-> T_water_in, regime |-> regime]

\* The early return of both step functions: no power, the state as it was
\* (self.time included).
GuardReturn(s, T_water_in, regime) ==
    [state |-> s, Q_actual |-> 0, T_water_out |-> T_water_in,
     regime |-> regime]

\* The temperature after sensible cooling of the liquid
DischargeLiquidT(T) == IF T <= T_phase THEN T_phase ELSE T

\* The solid fraction after solidification, the clamp to 1.0 left out
DischargeLatentSfUnclamped(sf) == sf

\* The solid fraction after solidification
DischargeLatentSf(sf) == Min(SfOne, sf)

\* E_stored left alone by the discharge step
DischargeEnergyKept(E, dE) == E

\* self.E_stored += dE, in the discharge step
DischargeEnergyAdded(E, dE) == E + dE

\* self.E_stored -= dE
DischargeEnergy(E, dE) == E - dE

\* The depleted guard of step_discharge
DischargeDepleted(s) ==
    s.solid_fraction >= SfFullySolid /\ s.T_sat < T_phase

\* The blocked guard of step_discharge with < for <=
DischargeBlockedStrict(s, T_water_in) == s.T_sat < T_water_in + GuardMargin

\* The blocked guard of step_discharge
DischargeBlocked(s, T_water_in) == s.T_sat <= T_water_in + GuardMargin

\* step_discharge(T_water_in, dt) on state s: the state after the call and
\* the pair it returns; regime tells which branch ran.
step_discharge(s, T_water_in, dt) ==
    IF DischargeDepleted(s) THEN GuardReturn(s, T_water_in, "depleted")
    ELSE IF DischargeBlocked(s, T_water_in)
    THEN GuardReturn(s, T_water_in, "blocked")
    ELSE
    LET Q_actual    == Q_actual_of(s.T_sat - T_water_in)
        T_water_out == IF Q_actual > 0
                       THEN T_water_in + delta_T_water_of(Q_actual)
                       ELSE T_water_in
        dE          == dE_of(Q_actual, dt)
        time2       == FloatAdd(s.time, dt)
    IN  IF ~(Q_actual > 0)
        THEN [state |-> [s EXCEPT !.time = time2], Q_actual |-> Q_actual,
              T_water_out |-> T_water_out, regime |-> "none"]
        ELSE IF s.T_sat > T_phase + RegimeMargin
        THEN [state |-> [s EXCEPT
                 !.T_sat = DischargeLiquidT(s.T_sat - dT_of(dE, HeatCapLiquid)),
                 !.E_stored = DischargeEnergy(s.E_stored, dE),
                 !.time = time2],
              Q_actual |-> Q_actual, T_water_out |-> T_water_out,
              regime |-> "liquid"]
        ELSE IF s.solid_fraction < SfFullySolid
        THEN [state |-> [s EXCEPT
                 !.solid_fraction =
                     DischargeLatentSf(s.solid_fraction + d_solid_fraction_of(dE)),
                 !.E_stored = DischargeEnergy(s.E_stored, dE),
                 !.T_sat = T_phase,
                 !.time = time2],
              Q_actual |-> Q_actual, T_water_out |-> T_water_out,
              regime |-> "latent"]
        ELSE [state |-> [s EXCEPT
                 !.T_sat = s.T_sat - dT_of(dE, HeatCapSolid),
                 !.E_stored = DischargeEnergy(s.E_stored, dE),
                 !.time = time2],
              Q_actual |-> 0, T_water_out |-> T_water_out,
              regime |-> "solid"]

\* The temperature after sensible heating of the solid, the clamp left out
ChargeSolidTUnclamped(T) == T

\* The temperature after sensible heating of the solid
ChargeSolidT(T) == IF T >= T_phase THEN T_phase ELSE T

\* The solid fraction after melting
ChargeLatentSf(sf) == Max(0, sf)

\* E_stored left alone by the charge step
ChargeEnergyKept(E, dE) == E

\* self.E_stored += dE
ChargeEnergy(E, dE) == E + dE

\* The fully-charged guard with 50 degC of superheat for 5
ChargeSaturatedLate(s) ==
    s.solid_fraction <= SfFullyLiquid
        /\ s.T_sat >= T_phase + 10 * ChargeSuperheat

\* The fully-charged guard of step_charge
ChargeSaturated(s) ==
    s.solid_fraction <= SfFullyLiquid /\ s.T_sat >= T_phase + ChargeSuperheat

\* The blocked guard of step_charge with < for <=
ChargeBlockedStrict(s, T_water_in) == T_water_in < s.T_sat + GuardMargin

\* The blocked guard of step_charge
ChargeBlocked(s, T_water_in) == T_water_in <= s.T_sat + GuardMargin

\* step_charge(T_water_in, dt) on state s
step_charge(s, T_water_in, dt) ==
    IF ChargeSaturated(s) THEN GuardReturn(s, T_water_in, "saturated")
    ELSE IF ChargeBlocked(s, T_water_in)
    THEN GuardReturn(s, T_water_in, "blocked")
    ELSE
    LET Q_actual    == Q_actual_of(T_water_in - s.T_sat)
        T_water_out == IF Q_actual > 0
                       THEN T_water_in - delta_T_water_of(Q_actual)
                       ELSE T_water_in
        dE          == dE_of(Q_actual, dt)
        time2       == FloatAdd(s.time, dt)
    IN  IF ~(Q_actual > 0)
        THEN [state |-> [s EXCEPT !.time = time2], Q_actual |-> Q_actual,
              T_water_out |-> T_water_out, regime |-> "none"]
        ELSE IF s.T_sat < T_phase - RegimeMargin
        THEN [state |-> [s EXCEPT
                 !.T_sat = ChargeSolidT(s.T_sat + dT_of(dE, HeatCapSolid)),
                 !.E_stored = ChargeEnergy(s.E_stored, dE),
                 !.time = time2],
              Q_actual |-> Q_actual, T_water_out |-> T_water_out,
              regime |-> "solid"]
        ELSE IF s.solid_fraction > SfFullyLiquid
        THEN [state |-> [s EXCEPT
                 !.solid_fraction =
                     ChargeLatentSf(s.solid_fraction - d_solid_fraction_of(dE)),
                 !.E_stored = ChargeEnergy(s.E_stored, dE),
                 !.T_sat = T_phase,
                 !.time = time2],
              Q_actual |-> Q_actual, T_water_out |-> T_water_out,
              regime |-> "latent"]
        ELSE [state |-> [s EXCEPT
                 !.T_sat = s.T_sat + dT_of(dE, HeatCapLiquid),
                 !.E_stored = ChargeEnergy(s.E_stored, dE),
                 !.time = time2],
              Q_actual |-> Q_actual, T_water_out |-> T_water_out,
              regime |-> "liquid"]

-----------------------------------------------------------------------------
(* The step functions on a specification record other than the design one *)

\* The fields of ITB100Specs a caller may override, at their design values
ITB100Specs ==
    [M_sat |-> M_sat, UA_effective |-> UA_effective,
     m_dot_design |-> m_dot_design]

\* The sign of specs.M_sat: dT and the change of the solid fraction are
\* quotients by M_sat
MassSign(p) == IF p.M_sat < 0 THEN 0 - 1 ELSE 1

\* UA_effective / (m_dot_design * cp_water) with m_dot_design = 0.0
\* raises ZeroDivisionError before any field is written.
Raise(s) ==
    [state |-> s, Q_actual |-> 0, T_water_out |-> 0,
     regime |-> "ZeroDivisionError"]

\* effectiveness * Q_max: 0 when UA_effective = 0 (NTU = 0, exp(0) = 1)
Q_actual_on(p, delta_T) ==
    IF p.UA_effective = 0 THEN 0 ELSE Q_actual_of(delta_T)

\* step_discharge with self.specs = p, for p the design record with M_sat
\* negated, UA_effective zeroed or m_dot_design zeroed
step_discharge_on(p, s, T_water_in, dt) ==
    IF DischargeDepleted(s) THEN GuardReturn(s, T_water_in, "depleted")
    ELSE IF DischargeBlocked(s, T_water_in)
    THEN GuardReturn(s, T_water_in, "blocked")
    ELSE IF p.m_dot_design = 0 THEN Raise(s)
    ELSE
    LET Q_actual    == Q_actual_on(p, s.T_sat - T_water_in)
        T_water_out == IF Q_actual > 0
                       THEN T_water_in + delta_T_water_of(Q_actual)
                       ELSE T_water_in
        dE          == dE_of(Q_actual, dt)
        time2       == FloatAdd(s.time, dt)
    IN  IF ~(Q_actual > 0)
        THEN [state |-> [s EXCEPT !.time = time2], Q_actual |-> Q_actual,
              T_water_out |-> T_water_out, regime |-> "none"]
        ELSE IF s.T_sat > T_phase + RegimeMargin
        THEN [state |-> [s EXCEPT
                 !.T_sat = DischargeLiquidT(
                     s.T_sat - MassSign(p) * dT_of(dE, HeatCapLiquid)),
                 !.E_stored = DischargeEnergy(s.E_stored, dE),
                 !.time = time2],
              Q_actual |-> Q_actual, T_water_out |-> T_water_out,
              regime |-> "liquid"]
        ELSE IF s.solid_fraction < SfFullySolid
        THEN [state |-> [s EXCEPT
                 !.solid_fraction = DischargeLatentSf(
                     s.solid_fraction
                         + MassSign(p) * d_solid_fraction_of(dE)),
                 !.E_stored = DischargeEnergy(s.E_stored, dE),
                 !.T_sat = T_phase,
                 !.time = time2],
              Q_actual |-> Q_actual, T_water_out |-> T_water_out,
              regime |-> "latent"]
        ELSE [state |-> [s EXCEPT
                 !.T_sat = s.T_sat - MassSign(p) * dT_of(dE, HeatCapSolid),
                 !.E_stored = DischargeEnergy(s.E_stored, dE),
                 !.time = time2],
              Q_actual |-> 0, T_water_out |-> T_water_out,
              regime |-> "solid"]

\* step_charge with self.specs = p
step_charge_on(p, s, T_water_in, dt) ==
    IF ChargeSaturated(s) THEN GuardReturn(s, T_water_in, "saturated")
    ELSE IF ChargeBlocked(s, T_water_in)
    THEN GuardReturn(s, T_water_in, "blocked")
    ELSE IF p.m_dot_design = 0 THEN Raise(s)
    ELSE
    LET Q_actual    == Q_actual_on(p, T_water_in - s.T_sat)
        T_water_out == IF Q_actual > 0
                       THEN T_water_in - delta_T_water_of(Q_actual)
                       ELSE T_water_in
        dE          == dE_of(Q_actual, dt)
        time2       == FloatAdd(s.time, dt)
    IN  IF ~(Q_actual > 0)
        THEN [state |-> [s EXCEPT !.time = time2], Q_actual |-> Q_actual,
              T_water_out |-> T_water_out, regime |-> "none"]
        ELSE IF s.T_sat < T_phase - RegimeMargin
        THEN [state |-> [s EXCEPT
                 !.T_sat = ChargeSolidT(
                     s.T_sat + MassSign(p) * dT_of(dE, HeatCapSolid)),
                 !.E_stored = ChargeEnergy(s.E_stored, dE),
                 !.time = time2],
              Q_actual |-> Q_actual, T_water_out |-> T_water_out,
              regime |-> "solid"]
        ELSE IF s.solid_fraction > SfFullyLiquid
        THEN [state |-> [s EXCEPT
                 !.solid_fraction = ChargeLatentSf(
                     s.solid_fraction
                         - MassSign(p) * d_solid_fraction_of(dE)),
                 !.E_stored = ChargeEnergy(s.E_stored, dE),
                 !.T_sat = T_phase,
                 !.time = time2],
              Q_actual |-> Q_actual, T_water_out |-> T_water_out,
              regime |-> "latent"]
        ELSE [state |-> [s EXCEPT
                 !.T_sat = s.T_sat + MassSign(p) * dT_of(dE, HeatCapLiquid),
                 !.E_stored = ChargeEnergy(s.E_stored, dE),
                 !.time = time2],
              Q_actual |-> Q_actual, T_water_out |-> T_water_out,
              regime |-> "liquid"]

-----------------------------------------------------------------------------
(* generate_solar_profile *)

\* np.linspace(9, 15, 73): 73 points from 9 h to 15 h
ProfilePoints == 73

ProfileStart == 9

ProfileEnd == 15

\* Solar noon, the centre of the Gaussian, in hours
SolarNoon == 12

\* peak_irradiance, W/m^2
peak_irradiance == 800

\* cloud_factor = 0.85, in percent
cloud_factor == 85

\* T_ambient = -2.0 and T_stagnation = 120.0 degC, in milli-degC
T_ambient == 0 - 2 * MilliPerUnit

T_stagnation == 120 * MilliPerUnit

\* The bounds of np.clip(T_collector, 60.0, 95.0), in milli-degC
ClipLow == 60 * MilliPerUnit

ClipHigh == 95 * MilliPerUnit

\* np.exp(-x) for 0 <= x < 4, in 1e-8: the fourth power of exp(-x / 4)
ExpNegWide(x) ==
    LET q  == ExpNeg(x \div 4)
        q2 == MulDiv(q, q, EffOne)
    IN  MulDiv(q2, q2, EffOne)

\* time_hours[i], i from 0, in minutes from midnight
time_hours(i) ==
    60 * ProfileStart
        + (60 * (ProfileEnd - ProfileStart) * i) \div (ProfilePoints - 1)

\* np.exp(-((hour_of_day - 12)**2) / 4.5) at index i, in 1e-8
GaussianAt(i) ==
    LET m == time_hours(i) - 60 * SolarNoon
    IN  ExpNegWide(MulDiv(m * m, 10 * EffOne, 45 * 3600))

\* normalized_intensity = irradiance / (peak_irradiance * cloud_factor),
\* the array, indexed from 1, in 1e-8
normalized_intensity ==
    SubSeq([i \in 1..ProfilePoints |-> GaussianAt(i - 1)], 1, ProfilePoints)

\* T_ambient + T_rise clipped to [60, 95] at index i, in milli-degC
ClippedTemperatureAt(i) ==
    LET T_rise == MulDiv(T_stagnation - T_ambient,
                         EffOne - ExpNegWide(3 * normalized_intensity[i]),
                         EffOne)
    IN  Max(ClipLow, Min(ClipHigh, T_ambient + T_rise))

\* T_collector, the array, indexed from 1
T_collector ==
    SubSeq([i \in 1..ProfilePoints |-> ClippedTemperatureAt(i)], 1,
           ProfilePoints)

\* Q_collector[i] = irradiance * collector_area * collector_efficiency, in
\* mW, for the area in 0.1 m^2 and the efficiency in percent
Q_collector(i, collector_area, collector_efficiency) ==
    MulDiv(((peak_irradiance * cloud_factor) \div 100)
               * collector_area * collector_efficiency,
           normalized_intensity[i], EffOne)

\* The i-th entries, i from 1, of the three returned arrays
SolarSample(i, collector_area, collector_efficiency) ==
    [time_hours |-> time_hours(i - 1),
     Q_collector |-> Q_collector(i, collector_area, collector_efficiency),
     T_collector |-> T_collector[i]]

-----------------------------------------------------------------------------
(* State *)

VARIABLES
    T_sat,            \* self.T_sat
    solid_fraction,   \* self.solid_fraction
    E_stored,         \* self.E_stored
    time,             \* self.time
    last,             \* the last step call: its arguments, the state it
                      \* found and the pair it returned
    calls,            \* step calls made so far
    pc,               \* "steps": a caller of the step functions;
                      \* "discharge" / "charge": inside the simulator's loop;
                      \* "done": the simulator has left its loop;
                      \* "new": before ThermalBatteryModel(specs);
                      \* "raised": a step call raised an exception
    sim,              \* the simulator's locals
    specs,            \* self.specs
    gen               \* the calls of generate_solar_profile: how many, the
                      \* arguments and the profile of the last one, and per
                      \* argument tuple the profile its first call returned

vars ==
    <<T_sat, solid_fraction, E_stored, time, last, calls, pc, sim, specs, gen>>

\* The ThermalBatteryModel object as one record
Model ==
    [T_sat |-> T_sat, solid_fraction |-> solid_fraction,
     E_stored |-> E_stored, time |-> time]

\* The start of the discharge with E_stored left at 0.0
FullyChargedEmpty ==
    [T_sat |-> T_phase, solid_fraction |-> 5 * (SfOne \div 100),
     E_stored |-> 0, time |-> Seconds(0)]

\* The state simulate_discharge sets before its loop: at the phase change
\* temperature, 5 % solid, the rated capacity stored
FullyCharged ==
    [T_sat |-> T_phase, solid_fraction |-> 5 * (SfOne \div 100),
     E_stored |-> E_max, time |-> Seconds(0)]

\* The state simulate_charge sets before its loop
FullyDischarged ==
    [T_sat |-> 20 * MilliPerUnit, solid_fraction |-> SfOne, E_stored |-> 0,
     time |-> Seconds(0)]

NoCall ==
    [op |-> "none", T_water_in |-> 0, dt |-> Seconds(0),
     before |-> reset_state, Q_actual |-> 0, T_water_out |-> 0,
     regime |-> "none"]

CallRecord(op, s, T_water_in, dt, r) ==
    [op |-> op, T_water_in |-> T_water_in, dt |-> dt, before |-> s,
     Q_actual |-> r.Q_actual, T_water_out |-> r.T_water_out,
     regime |-> r.regime]

NoSim ==
    [T_supply |-> 0, dt |-> Seconds(0), time |-> Seconds(0), n |-> 0,
     n_steps |-> 0, Q |-> 0, Q_available |-> 0, t |-> Seconds(0),
     total_energy |-> 0]

\* The model object takes the state r.state; the call is recorded.
Apply(op, T_water_in, dt, r) ==
    /\ T_sat' = r.state.T_sat
    /\ solid_fraction' = r.state.solid_fraction
    /\ E_stored' = r.state.E_stored
    /\ time' = r.state.time
    /\ last' = CallRecord(op, Model, T_water_in, dt, r)
    /\ calls' = calls + 1
    /\ specs' = specs
    /\ gen' = gen

\* No call of generate_solar_profile yet
NoGen == [n |-> 0, args |-> <<>>, profile |-> <<>>, first |-> <<>>]

\* A generator whose output drifts with the step calls made so far
generate_solar_profile_drifting(location, date, collector_area, collector_efficiency) ==
    [i \in 1..ProfilePoints |->
        SolarSample(i, collector_area + calls, collector_efficiency)]

\* generate_solar_profile: the three arrays as one sequence of samples;
\* location and date are not read
generate_solar_profile(location, date, collector_area, collector_efficiency) ==
    [i \in 1..ProfilePoints |->
        SolarSample(i, collector_area, collector_efficiency)]

-----------------------------------------------------------------------------
(* A caller of the step functions *)

\* Step calls per behaviour
MaxCalls == 5

\* Half a degree: the inlet temperatures 57.5 and 58.5 degC sit exactly on
\* the edge of the blocked guards of a medium at the phase change temperature
GuardStep == MilliPerUnit \div 2

\* Inlet temperatures a caller passes, milli-degC
InletTemps ==
    {20 * MilliPerUnit, T_phase - GuardStep, T_phase + GuardStep,
     95 * MilliPerUnit}

\* Time steps a caller passes
TimeSteps == {Seconds(60), Seconds(2 * 3600)}

Init ==
    /\ \E s \in {reset_state, FullyCharged} :
          /\ T_sat = s.T_sat
          /\ solid_fraction = s.solid_fraction
          /\ E_stored = s.E_stored
          /\ time = s.time
    /\ last = NoCall
    /\ calls = 0
    /\ pc = "steps"
    /\ sim = NoSim
    /\ specs = ITB100Specs
    /\ gen = NoGen

StepDischarge ==
    /\ pc = "steps"
    /\ calls < MaxCalls
    /\ \E T_water_in \in InletTemps, dt \in TimeSteps :
          Apply("step_discharge", T_water_in, dt,
                step_discharge(Model, T_water_in, dt))
    /\ UNCHANGED <<pc, sim>>

StepCharge ==
    /\ pc = "steps"
    /\ calls < MaxCalls
    /\ \E T_water_in \in InletTemps, dt \in TimeSteps :
          Apply("step_charge", T_water_in, dt,
                step_charge(Model, T_water_in, dt))
    /\ UNCHANGED <<pc, sim>>

Next == StepDischarge \/ StepCharge

Spec == Init /\ [][Next]_vars

-----------------------------------------------------------------------------
(* simulate_discharge and simulate_charge *)

\* max_time = 12 * 3600
max_time == Seconds(12 * 3600)

\* The power floor stopping the discharge from the first sample on
first_hour_none == Seconds(0)

\* The hour after which the power floor may stop the discharge
first_hour == Seconds(3600)

\* The power floor of simulate_discharge: 100 W, in mW
PowerFloor == 100 * MilliPerUnit

\* State of charge below which the discharge stops (0.01) and from which
\* the charge stops (0.99)
SocDepleted == SocOne \div 100

SocCharged == 99 * (SocOne \div 100)

\* The double nearest 43200 / 14 = 3085.714285714286 s
DtFourteenth == [hi |-> 101112685, lo |-> 191739612]

\* The double nearest 3600 / 7 = 514.2857142857143 s
DtSeventh == [hi |-> 16852114, lo |-> 76695845]

\* Supply temperatures of the discharge runs, milli-degC
SupplyTemps ==
    {20 * MilliPerUnit, 40 * MilliPerUnit, 50 * MilliPerUnit,
     T_phase - GuardStep, T_phase}

\* Time steps of the discharge runs
DischargeTimeSteps == {Seconds(60), Seconds(3600), DtFourteenth, DtSeventh}

\* Time steps of the charge runs
ChargeTimeSteps == {Seconds(60), Seconds(3600)}

\* Longest forcing profile
MaxProfile == 5

\* Values of solar_profile[i], mW
SolarPowers == {MilliPerUnit * MilliPerUnit, 9 * MilliPerUnit * MilliPerUnit}

\* Values of T_collector[i], milli-degC
CollectorTemps == {60 * MilliPerUnit, 95 * MilliPerUnit}

\* np.trapz(Q_history, time_history) one sample later: the trapezoid between
\* the previous sample and the new one, in J
Trapezoid(n, total, Q_prev, Q_new, dt) ==
    IF n = 0 THEN 0
    ELSE total + MulDiv(Q_prev + Q_new, Millis(dt),
                        2 * MilliPerUnit * MilliPerUnit)

\* The break of the discharge loop without the power floor
DischargeBreakSocOnly(E, Q_actual, t) == get_state_of_charge(E) < SocDepleted

\* The break of the discharge loop
DischargeBreak(E, Q_actual, t) ==
    \/ get_state_of_charge(E) < SocDepleted
    \/ (Q_actual < PowerFloor /\ TimeLess(first_hour, t))

\* The break of the charge loop testing for more than a full charge
ChargeBreakOverfull(E) == get_state_of_charge(E) > SocOne

\* The break of the charge loop
ChargeBreak(E) == get_state_of_charge(E) >= SocCharged

\* The reported power without the min
ChargeReportedUnclamped(Q_actual, Q_available) == Q_actual

\* Q_actual = min(Q_actual, Q_available)
ChargeReported(Q_actual, Q_available) == Min(Q_actual, Q_available)

InitSimulateDischarge ==
    /\ T_sat = FullyCharged.T_sat
    /\ solid_fraction = FullyCharged.solid_fraction
    /\ E_stored = FullyCharged.E_stored
    /\ time = FullyCharged.time
    /\ pc = "discharge"
    /\ \E T_supply \in SupplyTemps, dt \in DischargeTimeSteps :
          sim = [NoSim EXCEPT !.T_supply = T_supply, !.dt = dt]

InitSimulateCharge ==
    /\ T_sat = FullyDischarged.T_sat
    /\ solid_fraction = FullyDischarged.solid_fraction
    /\ E_stored = FullyDischarged.E_stored
    /\ time = FullyDischarged.time
    /\ pc = "charge"
    /\ \E n_steps \in 0..MaxProfile, dt \in ChargeTimeSteps :
          sim = [NoSim EXCEPT !.n_steps = n_steps, !.dt = dt]

InitSim ==
    /\ last = NoCall
    /\ calls = 0
    /\ specs = ITB100Specs
    /\ gen = NoGen
    /\ (InitSimulateDischarge \/ InitSimulateCharge)

\* One pass of the while loop of simulate_discharge
DischargeIterate ==
    /\ pc = "discharge"
    /\ TimeLess(sim.time, max_time)
    /\ LET r  == step_discharge(Model, sim.T_supply, sim.dt)
           t2 == FloatAdd(sim.time, sim.dt)
       IN  /\ Apply("step_discharge", sim.T_supply, sim.dt, r)
           /\ sim' = [sim EXCEPT
                        !.time = t2,
                        !.n = sim.n + 1,
                        !.t = sim.time,
                        !.Q = r.Q_actual,
                        !.total_energy =
                            Trapezoid(sim.n, sim.total_energy, sim.Q,
                                      r.Q_actual, sim.dt)]
           /\ pc' = IF DischargeBreak(r.state.E_stored, r.Q_actual, t2)
                    THEN "done" ELSE "discharge"

\* The while condition of simulate_discharge fails
DischargeTimeLimit ==
    /\ pc = "discharge"
    /\ ~TimeLess(sim.time, max_time)
    /\ pc' = "done"
    /\ UNCHANGED <<T_sat, solid_fraction, E_stored, time, last, calls, sim,
                   specs, gen>>

\* The body of the for loop of simulate_charge for the profile entries
\* Q_available = solar_profile[i] and T_in = T_collector_profile[i]
ChargeSample(Q_available, T_in) ==
    LET r == step_charge(Model, T_in, sim.dt)
        Q == ChargeReported(r.Q_actual, Q_available)
    IN  /\ Apply("step_charge", T_in, sim.dt, r)
        /\ sim' = [sim EXCEPT
                     !.time = FloatAdd(sim.time, sim.dt),
                     !.n = sim.n + 1,
                     !.t = sim.time,
                     !.Q = Q,
                     !.Q_available = Q_available,
                     !.total_energy =
                         Trapezoid(sim.n, sim.total_energy, sim.Q, Q,
                                   sim.dt)]
        /\ pc' = IF ChargeBreak(r.state.E_stored)
                 THEN "done" ELSE "charge"

\* One pass of the for loop of simulate_charge
ChargeIterate ==
    /\ pc = "charge"
    /\ sim.n < sim.n_steps
    /\ \E Q_available \in SolarPowers, T_in \in CollectorTemps :
          ChargeSample(Q_available, T_in)

\* The forcing profile is exhausted
ChargeProfileEnd ==
    /\ pc = "charge"
    /\ ~(sim.n < sim.n_steps)
    /\ pc' = "done"
    /\ UNCHANGED <<T_sat, solid_fraction, E_stored, time, last, calls, sim,
                   specs, gen>>

NextSim ==
    \/ DischargeIterate
    \/ DischargeTimeLimit
    \/ ChargeIterate
    \/ ChargeProfileEnd

SpecSim == InitSim /\ [][NextSim]_vars

-----------------------------------------------------------------------------
(* simulate_charge with dt = 60 under a steady forcing: every entry of
   solar_profile and of T_collector_profile equals the first *)

\* Length of the steady forcing profiles
LongProfile == 300

InitSteadyCharge ==
    /\ last = NoCall
    /\ calls = 0
    /\ specs = ITB100Specs
    /\ gen = NoGen
    /\ T_sat = FullyDischarged.T_sat
    /\ solid_fraction = FullyDischarged.solid_fraction
    /\ E_stored = FullyDischarged.E_stored
    /\ time = FullyDischarged.time
    /\ pc = "charge"
    /\ sim = [NoSim EXCEPT !.n_steps = LongProfile, !.dt = Seconds(60)]

\* One pass of the for loop of simulate_charge, the profile entries being
\* those of the pass before
ChargeSteady ==
    /\ pc = "charge"
    /\ sim.n < sim.n_steps
    /\ \E Q_available \in SolarPowers, T_in \in CollectorTemps :
          /\ sim.n > 0 => (Q_available = sim.Q_available
                            /\ T_in = last.T_water_in)
          /\ ChargeSample(Q_available, T_in)

NextSteadyCharge ==
    \/ ChargeSteady
    \/ ChargeProfileEnd

SpecSteadyCharge == InitSteadyCharge /\ [][NextSteadyCharge]_vars

-----------------------------------------------------------------------------
(* generate_solar_profile called before and after a simulator run *)

\* Calls of generate_solar_profile per behaviour
MaxGenerated == 2

\* Argument tuples a caller passes: location, date, collector area in
\* 0.1 m^2, collector efficiency in percent
ForcingArgs ==
    {<<"Syracuse_NY", "2025-01-15", 120, 70>>,
     <<"Syracuse_NY", "2025-01-15", 240, 70>>}

\* The profile the first call with these arguments returned, <<>> if none
FirstProfile(args) ==
    LET hit == {e \in DOMAIN gen.first : gen.first[e].args = args}
    IN  IF hit = {} THEN <<>> ELSE gen.first[CHOOSE e \in hit : TRUE].profile

\* The hourly simulator runs, the charge runs on profiles of at most two
\* entries
InitForcing == InitSim /\ sim.dt = Seconds(3600) /\ sim.n_steps <= 2

\* A call of generate_solar_profile, before the simulator's first pass or
\* after its loop
GenerateSolarProfile ==
    /\ sim.n = 0 \/ pc = "done"
    /\ gen.n < MaxGenerated
    /\ \E args \in ForcingArgs :
          LET profile == generate_solar_profile(args[1], args[2], args[3],
                                                args[4])
          IN  gen' = [n |-> gen.n + 1, args |-> args, profile |-> profile,
                      first |-> IF FirstProfile(args) = <<>>
                                THEN Append(gen.first,
                                            [args |-> args,
                                             profile |-> profile])
                                ELSE gen.first]
    /\ UNCHANGED <<T_sat, solid_fraction, E_stored, time, last, calls, pc,
                   sim, specs>>

NextForcing ==
    \/ DischargeIterate
    \/ DischargeTimeLimit
    \/ ChargeIterate
    \/ ChargeProfileEnd
    \/ GenerateSolarProfile

SpecForcing == InitForcing /\ [][NextForcing]_vars

-----------------------------------------------------------------------------
(* Construction with a caller's specification record *)

\* Step calls per behaviour on a caller's record
MaxConfigCalls == 3

\* The records a caller passes: the design record, with M_sat negated,
\* UA_effective zeroed, m_dot_design zeroed, or any of these together
ConfigSpace ==
    {[M_sat |-> m, UA_effective |-> u, m_dot_design |-> f] :
        m \in {M_sat, 0 - M_sat}, u \in {UA_effective, 0},
        f \in {m_dot_design, 0}}

\* Before the constructor: the caller has chosen the record
InitConfig ==
    /\ specs \in ConfigSpace
    /\ T_sat = reset_state.T_sat
    /\ solid_fraction = reset_state.solid_fraction
    /\ E_stored = reset_state.E_stored
    /\ time = reset_state.time
    /\ last = NoCall
    /\ calls = 0
    /\ pc = "new"
    /\ sim = NoSim
    /\ gen = NoGen

\* ITB100Specs(...) and ThermalBatteryModel(specs): the dataclass stores the
\* fields, __init__ stores the record and calls reset_state; neither tests
\* a value.
Construct ==
    /\ pc = "new"
    /\ T_sat' = reset_state.T_sat
    /\ solid_fraction' = reset_state.solid_fraction
    /\ E_stored' = reset_state.E_stored
    /\ time' = reset_state.time
    /\ pc' = "constructed"
    /\ UNCHANGED <<last, calls, sim, specs, gen>>

\* The pc after a step call returned r
AfterCall(r) == IF r.regime = "ZeroDivisionError" THEN "raised" ELSE pc

ConfigStepDischarge ==
    /\ pc = "constructed"
    /\ calls < MaxConfigCalls
    /\ \E T_water_in \in InletTemps, dt \in TimeSteps :
          LET r == step_discharge_on(specs, Model, T_water_in, dt)
          IN  /\ Apply("step_discharge", T_water_in, dt, r)
              /\ pc' = AfterCall(r)
    /\ UNCHANGED sim

ConfigStepCharge ==
    /\ pc = "constructed"
    /\ calls < MaxConfigCalls
    /\ \E T_water_in \in InletTemps, dt \in TimeSteps :
          LET r == step_charge_on(specs, Model, T_water_in, dt)
          IN  /\ Apply("step_charge", T_water_in, dt, r)
              /\ pc' = AfterCall(r)
    /\ UNCHANGED sim

NextConfig == Construct \/ ConfigStepDischarge \/ ConfigStepCharge

SpecConfig == InitConfig /\ [][NextConfig]_vars

-----------------------------------------------------------------------------
(* An uninterrupted charge: step_charge called again and again on the
   fully discharged medium, the inlet hotter than T_phase + 0.5 *)

\* step_charge calls per behaviour
MaxChargeCalls == 6

InitCharge ==
    /\ T_sat = FullyDischarged.T_sat
    /\ solid_fraction = FullyDischarged.solid_fraction
    /\ E_stored = FullyDischarged.E_stored
    /\ time = FullyDischarged.time
    /\ last = NoCall
    /\ calls = 0
    /\ pc = "charging"
    /\ sim = NoSim
    /\ specs = ITB100Specs
    /\ gen = NoGen

ChargeAgain ==
    /\ pc = "charging"
    /\ calls < MaxChargeCalls
    /\ \E T_water_in \in CollectorTemps, dt \in TimeSteps :
          Apply("step_charge", T_water_in, dt,
                step_charge(Model, T_water_in, dt))
    /\ UNCHANGED <<pc, sim>>

NextCharge == ChargeAgain

SpecCharge == InitCharge /\ [][NextCharge]_vars

-----------------------------------------------------------------------------
(* Properties of the step functions, checked under Spec *)

\* The last call was step_discharge / step_charge
Discharged == last.op = "step_discharge"

Charged == last.op = "step_charge"

\* The last call returned (0.0, T_water_in)
ReturnedZero == last.Q_actual = 0 /\ last.T_water_out = last.T_water_in

\* The last call left T_sat, solid_fraction and E_stored as they were
MediumUnchanged ==
    /\ T_sat = last.before.T_sat
    /\ solid_fraction = last.before.solid_fraction
    /\ E_stored = last.before.E_stored

\* 0.01, 0.99 of the solid fraction; 5 degC
SfPercent == SfOne \div 100

FiveDegrees == 5 * MilliPerUnit

\* C1: after any sequence of step_discharge and step_charge calls the solid
\* fraction is in [0, 1] and get_state_of_charge() is in [0, 1].
C1_FractionsInRange ==
    /\ 0 <= solid_fraction
    /\ solid_fraction <= SfOne
    /\ 0 <= get_state_of_charge(E_stored)
    /\ get_state_of_charge(E_stored) <= SocOne

\* A two-hour solidification step that overshoots: the fraction is clamped to
\* 1.0 and the stored energy has gone negative.
C1_Witness ==
    /\ Discharged
    /\ last.regime = "latent"
    /\ last.before.solid_fraction
         + d_solid_fraction_of(dE_of(last.Q_actual, last.dt)) > SfOne
    /\ solid_fraction = SfOne
    /\ E_stored < 0

\* C3: a step_discharge call never raises the state of charge and a
\* step_charge call never lowers it, so it is monotone over any run of calls
\* of one kind.
C3_SocMonotone ==
    /\ Discharged =>
         get_state_of_charge(E_stored)
             <= get_state_of_charge(last.before.E_stored)
    /\ Charged =>
         get_state_of_charge(E_stored)
             >= get_state_of_charge(last.before.E_stored)

\* A discharge call following a discharge call, the state of charge strictly
\* lower after it
C3_Witness ==
    /\ Discharged
    /\ calls >= 2
    /\ last.regime \in {"liquid", "latent", "solid"}
    /\ get_state_of_charge(E_stored)
           < get_state_of_charge(last.before.E_stored)

\* C7: whenever T_sat <= T_water_in + 0.5, step_discharge returns
\* (0.0, T_water_in) and leaves T_sat, solid_fraction and E_stored unchanged.
C7_BlockedDischarge ==
    (Discharged /\ last.before.T_sat <= last.T_water_in + GuardStep)
        => (ReturnedZero /\ MediumUnchanged)

\* The edge of the guard: the medium exactly 0.5 degC above the inlet, not
\* fully solid
C7_Witness ==
    /\ Discharged
    /\ last.before.T_sat = last.T_water_in + GuardStep
    /\ last.before.solid_fraction < 99 * SfPercent
    /\ last.regime = "blocked"

\* C8: whenever T_water_in <= T_sat + 0.5, step_charge returns
\* (0.0, T_water_in) and leaves T_sat, solid_fraction and E_stored unchanged.
C8_BlockedCharge ==
    (Charged /\ last.T_water_in <= last.before.T_sat + GuardStep)
        => (ReturnedZero /\ MediumUnchanged)

\* The edge of the guard: the inlet exactly 0.5 degC above the medium, not
\* fully liquid
C8_Witness ==
    /\ Charged
    /\ last.T_water_in = last.before.T_sat + GuardStep
    /\ last.before.solid_fraction > SfPercent
    /\ last.regime = "blocked"

\* C9: in every state with solid_fraction >= 0.99 and T_sat <= T_phase (the
\* case T_sat = T_phase included), step_discharge returns zero power and an
\* outlet temperature equal to the inlet temperature.
C9_DepletedGuard ==
    (Discharged
        /\ last.before.solid_fraction >= 99 * SfPercent
        /\ last.before.T_sat <= T_phase)
        => ReturnedZero

\* C10: in every state with solid_fraction <= 0.01 and T_sat >= T_phase + 5,
\* step_charge returns (0.0, T_water_in) and leaves T_sat, solid_fraction and
\* E_stored unchanged, however hot the inlet.
C10_SaturatedCharge ==
    (Charged
        /\ last.before.solid_fraction <= SfPercent
        /\ last.before.T_sat >= T_phase + FiveDegrees)
        => (ReturnedZero /\ MediumUnchanged)

\* A superheated liquid medium offered an inlet more than 0.5 degC hotter
C10_Witness ==
    /\ Charged
    /\ last.before.solid_fraction <= SfPercent
    /\ last.before.T_sat >= T_phase + FiveDegrees
    /\ last.T_water_in > last.before.T_sat + GuardStep
    /\ last.regime = "saturated"

\* The call found a state that passes both guards of step_discharge
PassedDischargeGuards ==
    /\ ~(last.before.solid_fraction >= 99 * SfPercent
           /\ last.before.T_sat < T_phase)
    /\ last.before.T_sat > last.T_water_in + GuardStep

\* (effectiveness * Q_max) * dt of the last call, in J
EnergyRemoved ==
    dE_of(Q_actual_of(last.before.T_sat - last.T_water_in), last.dt)

\* C16: in every step_discharge call that passes both guards E_stored
\* decreases by (effectiveness * Q_max) * dt, in the liquid, the latent and
\* the solid-cooling regime alike, clamped steps included.
C16_EnergyRemoved ==
    (Discharged /\ PassedDischargeGuards)
        => /\ EnergyRemoved > 0
           /\ last.before.E_stored - E_stored = EnergyRemoved

\* A solid-cooling step: no power reported, energy removed all the same
C16_Witness ==
    /\ Discharged
    /\ PassedDischargeGuards
    /\ last.before.solid_fraction >= 99 * SfPercent
    /\ last.Q_actual = 0
    /\ E_stored < last.before.E_stored

\* The regime the priority order selects for the state the call found
SelectedRegime ==
    IF last.before.T_sat > T_phase + MilliPerUnit \div 10 THEN "liquid"
    ELSE IF last.before.solid_fraction < 99 * SfPercent THEN "latent"
    ELSE "solid"

\* C17: a step_discharge call that passes both guards runs exactly one
\* regime, chosen in the order T_sat > T_phase + 0.1, solid_fraction < 0.99,
\* otherwise solid cooling; it returns power 0 in the solid-cooling regime
\* and effectiveness * Q_max > 0 in the other two.
C17_RegimeSelection ==
    (Discharged /\ PassedDischargeGuards)
        => /\ last.regime = SelectedRegime
           /\ last.regime = "liquid" =>
                (solid_fraction = last.before.solid_fraction
                    /\ T_sat < last.before.T_sat)
           /\ last.regime = "latent" =>
                (solid_fraction > last.before.solid_fraction
                    /\ T_sat = T_phase)
           /\ last.regime = "solid" =>
                (solid_fraction = last.before.solid_fraction
                    /\ T_sat < last.before.T_sat
                    /\ last.Q_actual = 0)
           /\ last.regime \in {"liquid", "latent"} =>
                (last.Q_actual > 0
                    /\ last.Q_actual
                         = Q_actual_of(last.before.T_sat - last.T_water_in))

\* A superheated liquid medium: both the first and the second test of the
\* selection hold, and the first one wins
C17_Witness ==
    /\ Discharged
    /\ PassedDischargeGuards
    /\ last.before.T_sat > T_phase + MilliPerUnit \div 10
    /\ last.before.solid_fraction < 99 * SfPercent
    /\ last.regime = "liquid"

\* C18: for every return of step_discharge the returned outlet temperature
\* is T_water_in + (returned power) / (m_dot_design * cp_water); with
\* returned power 0 it is the inlet temperature.
C18_OutletFromPower ==
    Discharged =>
        last.T_water_out
            = last.T_water_in
                + MulDiv(last.Q_actual, MilliPerUnit, m_dot_design * cp_water)

\* C23: every call of step_discharge or step_charge advances the model's
\* elapsed time by dt, the calls that return through a zero-power guard
\* included.
C23_TimeAdvances ==
    (Discharged \/ Charged) => time = FloatAdd(last.before.time, last.dt)

\* C24 as stated: every step_discharge returns a power >= 0 and an outlet
\* temperature between T_water_in and the T_sat before the step; every
\* step_charge returns a power >= 0 and an outlet temperature between the
\* T_sat before the step and T_water_in.
C24_ReturnsOrdered ==
    /\ Discharged =>
          /\ last.Q_actual >= 0
          /\ last.T_water_in <= last.T_water_out
          /\ last.T_water_out <= last.before.T_sat
    /\ Charged =>
          /\ last.Q_actual >= 0
          /\ last.before.T_sat <= last.T_water_out
          /\ last.T_water_out <= last.T_water_in

\* C24: every step returns a power >= 0; step_discharge returns an outlet
\* temperature >= T_water_in that is <= the T_sat before the step whenever
\* the inlet was not hotter than the medium, and step_charge returns an
\* outlet temperature <= T_water_in that is >= the T_sat before the step
\* whenever the inlet was not colder than the medium.
C24_ReturnsOrderedInDirection ==
    /\ Discharged =>
          /\ last.Q_actual >= 0
          /\ last.T_water_in <= last.T_water_out
          /\ (last.T_water_in <= last.before.T_sat
                 => last.T_water_out <= last.before.T_sat)
    /\ Charged =>
          /\ last.Q_actual >= 0
          /\ last.T_water_out <= last.T_water_in
          /\ (last.before.T_sat <= last.T_water_in
                 => last.before.T_sat <= last.T_water_out)

\* A discharge step with power whose outlet lies strictly between the inlet
\* and the medium
C24_Witness ==
    /\ Discharged
    /\ last.Q_actual > 0
    /\ last.T_water_in < last.T_water_out
    /\ last.T_water_out < last.before.T_sat

\* C25: with dt = 60, after a step_discharge T_sat is not below the inlet
\* temperature of that step unless it was before the step, and after a
\* step_charge T_sat is not above the inlet temperature of that step unless
\* it was before the step.
C25_NoOvershoot ==
    /\ (Discharged /\ last.dt = Seconds(60)
           /\ last.before.T_sat >= last.T_water_in)
          => T_sat >= last.T_water_in
    /\ (Charged /\ last.dt = Seconds(60)
           /\ last.before.T_sat <= last.T_water_in)
          => T_sat <= last.T_water_in

\* A 60 s discharge step that cooled the medium towards the inlet
C25_Witness ==
    /\ Discharged
    /\ last.dt = Seconds(60)
    /\ T_sat < last.before.T_sat
    /\ T_sat > last.T_water_in

\* A step_discharge call follows a step_discharge call that returned through
\* the depleted guard
DischargeAfterDepleted ==
    /\ Discharged
    /\ last.regime = "depleted"
    /\ calls' = calls + 1
    /\ last'.op = "step_discharge"

\* C29: once a step_discharge has returned through the depleted guard, every
\* later step_discharge, whatever its inlet temperature and dt, returns
\* (0.0, T_water_in) through that guard and leaves T_sat, solid_fraction and
\* E_stored unchanged, until a step_charge is made.
C29_DepletionAbsorbing ==
    [][DischargeAfterDepleted =>
          /\ last'.regime = "depleted"
          /\ last'.Q_actual = 0
          /\ last'.T_water_out = last'.T_water_in
          /\ T_sat' = T_sat
          /\ solid_fraction' = solid_fraction
          /\ E_stored' = E_stored]_vars

\* A call after a charge returned through the depleted guard, with an inlet
\* cold enough for heat to flow had the guard not been there
C29_Witness ==
    /\ Discharged
    /\ last.regime = "depleted"
    /\ calls >= 2
    /\ E_stored > 0
    /\ T_sat > last.T_water_in + GuardStep

\* The heat of fusion of the mass that changed phase in the last call, in J
LatentHeatMoved ==
    IF solid_fraction >= last.before.solid_fraction
    THEN MulDiv(solid_fraction - last.before.solid_fraction,
                LatentCapacity, SfOne)
    ELSE MulDiv(last.before.solid_fraction - solid_fraction,
                LatentCapacity, SfOne)

\* The change of E_stored in the last call, in J
EnergyMoved ==
    IF E_stored >= last.before.E_stored
    THEN E_stored - last.before.E_stored
    ELSE last.before.E_stored - E_stored

\* C12: in every latent step of step_discharge the increase of the solid
\* fraction times M_sat times delta_H_fusion equals the decrease of E_stored,
\* and in every latent step of step_charge the decrease of the solid
\* fraction times M_sat times delta_H_fusion equals the increase of E_stored.
\* (Equal up to 2 J: the two amounts are quotients rounded down.)
C12_LatentLockStep ==
    ((Discharged \/ Charged) /\ last.regime = "latent")
        => /\ Discharged =>
                (solid_fraction >= last.before.solid_fraction
                    /\ E_stored <= last.before.E_stored)
           /\ Charged =>
                (solid_fraction <= last.before.solid_fraction
                    /\ E_stored >= last.before.E_stored)
           /\ EnergyMoved - LatentHeatMoved <= 2
           /\ LatentHeatMoved - EnergyMoved <= 2

-----------------------------------------------------------------------------
(* Properties of the simulation runs, checked under SpecSim *)

\* A simulate_discharge run, at least one sample recorded
DischargeRun == Discharged /\ sim.n > 0

\* A simulate_charge run, at least one sample recorded
ChargeRun == Charged /\ sim.n > 0

\* 12 simulated hours
TwelveHours == Seconds(12 * 3600)

\* k steps of dt, in exact arithmetic, reach 12 hours
ReachTwelveHours(k, dt) ==
    k * dt.hi + MulDiv(k, dt.lo, LoPerHi) >= TwelveHours.hi

\* ceil(12 * 3600 / dt), in exact arithmetic
MaxSamples(dt) ==
    LET low  == TwelveHours.hi \div (dt.hi + 1)
        high == (TwelveHours.hi + dt.hi - 1) \div dt.hi
    IN  CHOOSE k \in low..high :
            /\ ReachTwelveHours(k, dt)
            /\ \A j \in low..(k - 1) : ~ReachTwelveHours(j, dt)

\* One of the two break conditions holds after the last recorded sample:
\* state of charge below 0.01, or power below 100 W after the first hour
StopCondition ==
    \/ get_state_of_charge(E_stored) * 100 < SocOne
    \/ (sim.Q < 100 * MilliPerUnit /\ TimeLess(Seconds(3600), sim.time))

\* C2: in every state recorded during a simulate_discharge or simulate_charge
\* run, whenever 0 < solid_fraction < 1 the medium temperature T_sat equals
\* T_phase exactly.
C2_PhasePlateau ==
    (0 < solid_fraction /\ solid_fraction < SfOne) => T_sat = T_phase

\* C4: in simulate_charge every recorded absorbed power Q[i] is at most the
\* available power Q_available[i].
C4_ChargeLimitedBySource == ChargeRun => sim.Q <= sim.Q_available

\* The exchanger could absorb more than the collector supplies: the recorded
\* power is the available power
C4_Witness ==
    /\ ChargeRun
    /\ last.Q_actual > sim.Q_available
    /\ sim.Q = sim.Q_available

\* C5: simulate_discharge ends at the first stop condition, records at most
\* ceil(12 * 3600 / dt) samples for every dt > 0, and its last sample time is
\* below 12 simulated hours.
C5_DischargeBounded ==
    DischargeRun =>
        /\ sim.n <= MaxSamples(sim.dt)
        /\ TimeLess(sim.t, TwelveHours)
        /\ (pc = "discharge" => ~StopCondition)
        /\ (pc = "done" =>
                (StopCondition \/ ~TimeLess(sim.time, TwelveHours)))

\* C6: the energy delivered by simulate_discharge(T_supply = 40, dt = 60)
\* from full charge is within 5 % of the rated capacity E_storage.
C6_EnergyConserved ==
    (DischargeRun
        /\ pc = "done"
        /\ sim.T_supply = 40 * MilliPerUnit
        /\ sim.dt = Seconds(60))
        => /\ 100 * (E_max \div 1000 - sim.total_energy \div 1000)
                  <= 5 * (E_max \div 1000)
           /\ 100 * (sim.total_energy \div 1000 - E_max \div 1000)
                  <= 5 * (E_max \div 1000)

\* The run simulate_discharge(T_supply = 40, dt = 60)
DefaultDischargeRun ==
    DischargeRun /\ sim.T_supply = 40 * MilliPerUnit /\ sim.dt = Seconds(60)

\* C13: in the simulate_discharge run with T_supply = 40 and dt = 60 the
\* recorded solid fraction never decreases from sample to sample and is at
\* least 0.99 at the final sample.
C13_SolidFractionRises ==
    DefaultDischargeRun =>
        /\ solid_fraction >= last.before.solid_fraction
        /\ (pc = "done" => solid_fraction >= 99 * SfPercent)

\* The run has ended after a sample that raised the solid fraction, and the
\* solid fraction is at least 0.99
C13_Witness ==
    /\ DefaultDischargeRun
    /\ pc = "done"
    /\ sim.n > 1
    /\ solid_fraction >= 99 * SfPercent
    /\ solid_fraction > 5 * SfPercent

\* Inside simulate_charge or after it
InChargeRun == pc = "charge" \/ (pc = "done" /\ ~Discharged)

\* get_state_of_charge() >= 0.99 at the last recorded sample
ChargedToFull == get_state_of_charge(E_stored) * 100 >= 99 * SocOne

\* C14: simulate_charge records at most len(solar_profile) samples, records
\* no sample after the first one with state of charge >= 0.99, and ends
\* with state of charge >= 0.99 or with as many samples as the profile has.
C14_ChargeBounded ==
    InChargeRun =>
        /\ sim.n <= sim.n_steps
        /\ (pc = "charge" /\ sim.n > 0 => ~ChargedToFull)
        /\ (pc = "done" => (ChargedToFull \/ sim.n = sim.n_steps))

\* The run ended on a full charge with profile entries left over
C14_Witness ==
    /\ ChargeRun
    /\ pc = "done"
    /\ ChargedToFull
    /\ sim.n < sim.n_steps

\* C20: simulate_discharge goes on after a sample only if the state of
\* charge is at least 0.01 and the reported power is at least 100 W or the
\* elapsed time after the step is at most 3600 s; a run that has ended
\* within the first hour has ended on the state of charge.
C20_StopsAtFirstCondition ==
    DischargeRun =>
        /\ pc = "discharge" =>
              /\ get_state_of_charge(E_stored) * 100 >= SocOne
              /\ (sim.Q >= 100 * MilliPerUnit
                    \/ ~TimeLess(Seconds(3600), sim.time))
        /\ (pc = "done" /\ ~TimeLess(Seconds(3600), sim.time)) =>
              get_state_of_charge(E_stored) * 100 < SocOne

\* A blocked run within its first hour: power below 100 W sample after
\* sample, and the loop goes on
C20_Witness ==
    /\ DischargeRun
    /\ pc = "discharge"
    /\ sim.n >= 2
    /\ sim.Q < 100 * MilliPerUnit
    /\ ~TimeLess(Seconds(3600), sim.time)

\* C21: the run simulate_discharge(T_supply = 40, dt = 60) from the full
\* charge ends with a state of charge below 1 %.
C21_RunsToEmpty ==
    (DefaultDischargeRun /\ pc = "done")
        => get_state_of_charge(E_stored) * 100 < SocOne

\* C22: in simulate_charge the state is updated with the power step_charge
\* computed, not with the reported power clamped to the available power:
\* E_stored rises by that power times dt, also where this is more than
\* solar_profile[i] * dt.
C22_StateTakesUnclampedPower ==
    ChargeRun =>
        /\ sim.Q = Min(last.Q_actual, sim.Q_available)
        /\ E_stored - last.before.E_stored = dE_of(last.Q_actual, sim.dt)

\* A sample at which the state has taken in more than the profile supplied
C22_Witness ==
    /\ ChargeRun
    /\ sim.Q = sim.Q_available
    /\ E_stored - last.before.E_stored > dE_of(sim.Q_available, sim.dt)

\* C27: E_stored is never negative in a simulate_discharge run with
\* dt = 60 from the full charge, for each supply temperature of cold or
\* warm water, nor in a simulate_charge run, for every forcing profile.
C27_EnergyNonNegative ==
    ((DischargeRun /\ sim.dt = Seconds(60)) \/ ChargeRun) => E_stored >= 0

\* A 60 s discharge run against the coldest supply has ended
C27_Witness ==
    /\ DischargeRun
    /\ sim.dt = Seconds(60)
    /\ sim.T_supply = 20 * MilliPerUnit
    /\ pc = "done"
    /\ E_stored < E_max

\* A run whose supply is not below T_phase - 0.5
BlockedRun == DischargeRun /\ sim.T_supply >= T_phase - GuardStep

\* k steps of dt, in exact arithmetic, exceed 3600 s
PastFirstHour(k, dt) ==
    LET whole == k * dt.hi + MulDiv(k, dt.lo, LoPerHi)
        rest  == IF k = 0 \/ dt.lo = 0 THEN 0
                 ELSE MulDivQR(k, dt.lo, LoPerHi, DigitBase(LoPerHi, 2))[2]
    IN  whole > first_hour.hi \/ (whole = first_hour.hi /\ rest > 0)

\* floor(3600 / dt) + 1, in exact arithmetic
FirstHourSamples(dt) ==
    CHOOSE k \in 1..(first_hour.hi \div dt.hi + 1) :
        PastFirstHour(k, dt) /\ ~PastFirstHour(k - 1, dt)

\* C28: when T_supply >= T_phase - 0.5, simulate_discharge leaves T_sat,
\* solid_fraction and E_stored at their initial values, every recorded
\* power is 0, the run stops at the first sample whose end time exceeds
\* 3600 s, which is sample floor(3600 / dt) + 1, and the total delivered
\* energy is 0.
C28_BlockedRun ==
    BlockedRun =>
        /\ T_sat = FullyCharged.T_sat
        /\ solid_fraction = FullyCharged.solid_fraction
        /\ E_stored = FullyCharged.E_stored
        /\ sim.Q = 0
        /\ sim.total_energy = 0
        /\ (pc = "discharge" => ~TimeLess(first_hour, sim.time))
        /\ (pc = "done" =>
                /\ TimeLess(first_hour, sim.time)
                /\ sim.n = FirstHourSamples(sim.dt))

\* C30: in the run simulate_discharge(T_supply = 40, dt = 60) a step taken
\* in the fully-solid cooling regime (reported power 0 while E_stored and
\* T_sat decrease) is the last recorded sample, so there is at most one.
C30_SolidCoolingEndsRun ==
    (DefaultDischargeRun /\ last.regime = "solid") =>
        /\ pc = "done"
        /\ sim.Q = 0
        /\ E_stored < last.before.E_stored
        /\ T_sat < last.before.T_sat

\* The default run has ended on a solid-cooling step taken after the
\* solidification
C30_Witness ==
    /\ DefaultDischargeRun
    /\ last.regime = "solid"
    /\ pc = "done"
    /\ sim.n > 1
    /\ last.before.solid_fraction >= 99 * SfPercent
    /\ T_sat < T_phase

-----------------------------------------------------------------------------
(* Properties of the steady charge runs, checked under SpecSteadyCharge *)

\* C26: in every state of a simulate_charge run with dt = 60 from the fully
\* discharged state, a state of charge of at least 0.99 implies a solid
\* fraction of at most 0.01.
C26_FullMeansMelted ==
    (ChargeRun /\ sim.dt = Seconds(60)
        /\ get_state_of_charge(E_stored) >= SocCharged)
        => solid_fraction <= SfPercent

-----------------------------------------------------------------------------
(* Properties of the uninterrupted charge, checked under SpecCharge *)

\* 1, 2, 3 for the regimes solid, latent, liquid of step_charge; 0 for a
\* call that ran none
ChargeRank(regime) ==
    IF regime = "solid" THEN 1
    ELSE IF regime = "latent" THEN 2
    ELSE IF regime = "liquid" THEN 3
    ELSE 0

\* One more step_charge call: the temperature does not fall, the solid
\* fraction does not rise and changes only in a latent step, and the regime
\* is not an earlier one than that of the call before.
ChargeStepInOrder ==
    /\ T_sat' >= T_sat
    /\ solid_fraction' <= solid_fraction
    /\ solid_fraction' # solid_fraction => last'.regime = "latent"
    /\ last'.regime = "solid" => solid_fraction = SfOne /\ T_sat < T_phase
    /\ last'.regime = "latent" => T_sat <= T_phase
    /\ last'.regime = "liquid" => solid_fraction <= SfPercent
    /\ (ChargeRank(last'.regime) # 0 /\ ChargeRank(last.regime) # 0)
          => ChargeRank(last'.regime) >= ChargeRank(last.regime)

\* C19: in an uninterrupted charge from the fully discharged state with
\* inlets above T_phase + 0.5 the regimes come in the order solid heating,
\* latent melting, liquid superheating and none comes back; solid_fraction
\* changes only in latent steps; T_sat does not exceed T_phase before
\* solid_fraction has dropped to 0.01 or below.
C19_ChargeRegimeOrder ==
    /\ [](T_sat > T_phase => solid_fraction <= SfPercent)
    /\ [](solid_fraction < SfOne => T_sat >= T_phase)
    /\ [][ChargeStepInOrder]_vars

\* A superheating step: the medium went through all three regimes
C19_Witness ==
    /\ Charged
    /\ last.regime = "liquid"
    /\ last.before.T_sat = T_phase
    /\ T_sat > T_phase
    /\ solid_fraction <= SfPercent

-----------------------------------------------------------------------------
(* Properties of construction, checked under SpecConfig *)

\* Negative mass, non-positive UA or non-positive flow rate
InvalidConfig(p) ==
    p.M_sat < 0 \/ p.UA_effective <= 0 \/ p.m_dot_design <= 0

\* C11: construction with negative M_sat, non-positive UA_effective or
\* non-positive m_dot_design ends in a configuration error, so no step is
\* ever executed on such parameters.
C11_InvalidConfigFailsFast ==
    InvalidConfig(specs) => (pc \in {"new", "config_error"} /\ calls = 0)

-----------------------------------------------------------------------------
(* Properties of the forcing generator, checked under SpecForcing *)

=============================================================================
